---- MODULE Spec2Model ----
(***************************************************************************)
(* GenericShell (opencog/cogserver/shell/GenericShell.cc): the session     *)
(* engine of the cogserver shell.  One receiver thread calls eval(expr)    *)
(* for every line; an Evaluate line starts an evaluation thread and a      *)
(* polling thread, a control line is answered synchronously.               *)
(*                                                                         *)
(* Strings are sequences of byte values.  Thread 0 is the receiver (the    *)
(* caller of eval); thread k > 0 is the polling thread started by the      *)
(* k-th call of eval; evalw[k] is the evaluation thread of that call.      *)
(* The evaluator (GenericEval) and the socket (ConsoleSocket) are not part *)
(* of the sources; they are modelled from their interface contract:        *)
(* poll_result never blocks and returns the empty string when no output is *)
(* available, eval_expr may run for ever.                                  *)
(*                                                                         *)
(* No member of the shell is protected by a lock.  The steps of a thread   *)
(* are cut where it reads or writes a shared member, so that the unordered *)
(* accesses of two threads show as interleavings: poll_output copies       *)
(* pending_output in one step and clears it in another, and tests          *)
(* eval_done in one step and sets it in another.  A thread at "send" is    *)
(* inside socket->Send.  The variable h records what has happened (calls   *)
(* made, texts put and sent); no action reads it.                          *)
(*                                                                         *)
(* Spec lets any of Lines arrive at any time the receiver thread is free.  *)
(* LineSpec is the same shell fed one ordinary line and then, once that    *)
(* line's threads are over, one line of LineCases, the wider set of lines  *)
(* the statements about line_discipline alone are checked on.              *)
(***************************************************************************)
EXTENDS Integers, Sequences, FiniteSets, TLC

\* ---------------------------------------------------------------- bounds
MaxSubmits == 2      \* calls of eval() in one behaviour
MaxOut == 1          \* chunks one eval_expr call may produce
MaxHush == 2         \* calls of hush_output and hush_prompt in one behaviour

\* ------------------------------------------------------- program constants
IAC == 255
IP == 244
AO == 245
EL == 248
WILL == 251
TIMING_MARK == 6
EOT == 4
SYN == 22
CAN == 24
ESC == 27
NL == 10             \* '\n'
DOT == 46            \* '.'
CH == 97             \* an ordinary character, 'a'
Window == 20         \* the scan looks at most 20 chars from the end

normal_prompt == <<62, 32>>
pending_prompt == <<46, 46, 46, 32>>
abort_prompt == <<IAC, WILL, TIMING_MARK, NL>>
exit_text == <<69, 120, 105, 116, 105, 110, 103, 32, 116, 104, 101, 32,
               115, 104, 101, 108, 108, 10>>
empty == <<>>

\* --------------------------------------------------------------- inputs
RECURSIVE Pad(_)
Pad(n) == IF n = 0 THEN <<>> ELSE <<CH>> \o Pad(n - 1)

\* The lines the receiver thread may hand to eval().
Lines ==
    { <<>>, <<CH>>,
      <<IAC, IP>>, <<IAC, AO>>, <<IAC, EL>>, <<IAC, IP, IAC, EL>>,
      <<IAC, IP>> \o Pad(Window - 2),     \* IAC is the 20th char from the end
      <<IAC, IP>> \o Pad(Window - 1),     \* IAC is the 21st char from the end
      <<ESC>>, <<DOT>> }

Caller == 0
Threads == 0..MaxSubmits
Workers == 1..MaxSubmits

VARIABLES
    show_output, show_prompt, pending_output, eval_done, poll_needed,
    self_destruct, evalthr, pollthr, socket,
    shell,           \* the socket's pointer back to this shell (SetShell)
    released,        \* delete this has completed
    fatal,           \* an OC_ASSERT has failed
    th,              \* per thread: program counter and retstr
    expr, input, toPut, cyc,   \* locals of the receiver thread
    hushes,          \* calls of hush_output and hush_prompt so far
    evalw,           \* per evaluation thread: "none", "running", "done"
    outbuf,          \* evaluator: output not yet polled
    input_pending, eval_error,
    sent,            \* transport: the chunks written, in order
    h                \* history of the current call and cycle

vars == <<show_output, show_prompt, pending_output, eval_done, poll_needed,
          self_destruct, evalthr, pollthr, socket, shell, released, fatal,
          th, expr, input, toPut, cyc, evalw, outbuf, input_pending,
          eval_error, sent, h, hushes>>

shellVars == <<show_output, show_prompt, hushes>>
evalVars == <<outbuf, input_pending, eval_error>>
localVars == <<expr, input, toPut, cyc>>
lifeVars == <<socket, shell, released, fatal>>

pc(t) == th[t].pc
Goto(t, p) == th' = [th EXCEPT ![t].pc = p]

\* ---------------------------------------------------------- line discipline
\* The backward scan for IAC; expr[i] of the code is e[i + 1] here.
RECURSIVE Scan(_, _, _)
Scan(e, i, m) ==
    IF m > i THEN "none"
    ELSE IF e[i + 1] = IAC /\ e[i + 2] \in {IP, AO} THEN "abort"
    ELSE IF e[i + 1] = IAC /\ e[i + 2] = EL THEN "erase"
    ELSE Scan(e, i - 1, m)

\* A scan that starts one char too far from the end.
ScanStart_OneShort(e) == Len(e) - 3

ScanStart(e) == Len(e) - 2

\* A scan that does not stop at the 20th char from the end.
ScanStop_WholeLine(e) == 0

ScanStop(e) == IF Len(e) - Window < 0 THEN 0 ELSE Len(e) - Window

IsCtrlEnd(e) == e[Len(e)] \in {SYN, CAN, ESC}

\* An exit test that forgets to ask for a line of one char.
IsExitLine_AnyTrailingDot(e) == (EOT = e[Len(e)]) \/ (DOT = e[Len(e)])

IsExitLine(e) == (EOT = e[Len(e)]) \/ (Len(e) = 1 /\ DOT = e[1])

\* What line_discipline does with expr, given evaluator->input_pending().
Classify(e, pend) ==
    IF Len(e) = 0 THEN "empty"
    ELSE IF Scan(e, ScanStart(e), ScanStop(e)) # "none"
         THEN Scan(e, ScanStart(e), ScanStop(e))
    ELSE IF IsCtrlEnd(e) THEN "ctrl"
    ELSE IF (~pend) /\ IsExitLine(e) THEN "exit"
    ELSE "eval"

get_prompt ==
    IF ~show_prompt THEN empty
    ELSE IF input_pending THEN pending_prompt ELSE normal_prompt

\* A terminal prompt whose pending case looks at show_prompt alone, as
\* get_prompt does.
TerminalPrompt_PendingLikeGetPrompt(so, sp, ip, ee) ==
    IF ip THEN (IF sp THEN pending_prompt ELSE empty)
    ELSE IF (so \/ ee) /\ sp THEN normal_prompt
    ELSE empty

\* The terminal prompt poll_output returns once the evaluator has drained.
TerminalPrompt(so, sp, ip, ee) ==
    IF ip THEN (IF so /\ sp THEN pending_prompt ELSE empty)
    ELSE IF (so \/ ee) /\ sp THEN normal_prompt
    ELSE empty

\* ------------------------------------------------------------ history
NoPrompt == [taken |-> FALSE]

NewCall ==
    [interrupts |-> 0, clears |-> 0, begins |-> 0, evalStarts |-> 0,
     pollStarts |-> 0, joins |-> 0, pollResults |-> 0, sends |-> 0,
     put |-> <<>>, callerSent |-> <<>>, evalArg |-> <<>>, overlap |-> FALSE,
     pend |-> FALSE]

\* ------------------------------------------------------------------ Init
Init ==
    /\ show_output = TRUE
    /\ show_prompt = TRUE
    /\ pending_output = empty
    /\ eval_done \in BOOLEAN          \* not initialised by the constructor
    /\ poll_needed \in BOOLEAN        \* not initialised by the constructor
    /\ self_destruct = FALSE
    /\ evalthr = 0
    /\ pollthr = 0
    /\ socket = 0
    /\ shell = 0
    /\ released = FALSE
    /\ fatal = FALSE
    /\ th = [t \in Threads |-> [pc |-> IF t = Caller THEN "idle" ELSE "none",
                                ret |-> empty]]
    /\ expr = empty
    /\ input = empty
    /\ toPut = <<>>
    /\ cyc = 0
    /\ hushes = 0
    /\ evalw = [k \in Workers |-> [st |-> "none", n |-> 0]]
    /\ outbuf = <<>>
    /\ input_pending = FALSE
    /\ eval_error = FALSE
    /\ sent = <<>>
    /\ h = [call |-> NewCall, kinds |-> [k \in Workers |-> "none"],
            latches |-> 0, prompts |-> 0, prompt |-> NoPrompt,
            begun |-> {}, drained |-> FALSE, binds |-> 0,
            events |-> <<>>]

Alive == ~fatal /\ ~released

\* --------------------------------------------------------------- threads
\* A join that returns at once, whatever the thread is doing.
EvalThreadFinished_NoWait(k) == TRUE

\* thread::join returns once the thread's function has returned.
EvalThreadFinished(k) == evalw[k].st = "done"

\* A join that returns at once, whatever the thread is doing.
PollThreadFinished_NoWait(k) == TRUE

PollThreadFinished(k) == pc(k) = "exit"

EvalLive == {k \in Workers : evalw[k].st = "running"}

PollLive == {k \in Workers : pc(k) \notin {"none", "exit"}}

\* ------------------------------------------------ operations between calls
hush_output(hush) ==
    /\ Alive /\ pc(Caller) = "idle"
    /\ hushes < MaxHush
    /\ hushes' = hushes + 1
    /\ show_output' = ~hush
    /\ UNCHANGED <<show_prompt, pending_output, eval_done, poll_needed,
                   self_destruct, evalthr, pollthr, lifeVars, th, localVars,
                   evalw, evalVars, sent, h>>

hush_prompt(hush) ==
    /\ Alive /\ pc(Caller) = "idle"
    /\ hushes < MaxHush
    /\ hushes' = hushes + 1
    /\ show_prompt' = ~hush
    /\ UNCHANGED <<show_output, pending_output, eval_done, poll_needed,
                   self_destruct, evalthr, pollthr, lifeVars, th, localVars,
                   evalw, evalVars, sent, h>>

Sockets == {1, 2}

\* A set_socket without the assertion: the later socket replaces the first.
set_socket_Rebind(s) ==
    /\ Alive /\ pc(Caller) = "idle"
    /\ socket = 0 => s = 1
    /\ socket' = s
    /\ shell' = s
    /\ h' = [h EXCEPT !.binds = @ + 1]
    /\ UNCHANGED <<shellVars, pending_output, eval_done, poll_needed,
                   self_destruct, evalthr, pollthr, released, fatal, th,
                   localVars, evalw, evalVars, sent>>

set_socket(s) ==
    /\ Alive /\ pc(Caller) = "idle"
    /\ socket = 0 => s = 1       \* the socket that made the shell is first
    /\ IF socket # 0
       THEN /\ fatal' = TRUE                  \* OC_ASSERT fails
            /\ UNCHANGED <<socket, shell>>
       ELSE /\ socket' = s
            /\ shell' = s                     \* socket->SetShell(this)
            /\ UNCHANGED fatal
    /\ h' = [h EXCEPT !.binds = @ + 1]
    /\ UNCHANGED <<shellVars, pending_output, eval_done, poll_needed,
                   self_destruct, evalthr, pollthr, released, th, localVars,
                   evalw, evalVars, sent>>

\* ----------------------------------------------------------------- eval()
\* An eval() that starts the poll thread whatever poll_needed says.
AfterDiscipline_AlwaysThread(needed) == "ev_join_poll"

\* if (not poll_needed) poll_output() and Send, else start the poll thread.
AfterDiscipline(needed) == IF ~needed THEN "po_enter" ELSE "ev_join_poll"

\* An eval() that returns without looking at self_destruct.
AfterRelay_NeverDestruct(destruct) == "idle"

\* if (self_destruct) ... ; otherwise eval() returns.
AfterRelay(destruct) == IF destruct THEN "sd_prompt" ELSE "idle"

\* Entry of eval(expr): poll_needed = false, then line_discipline(expr) up
\* to its first put_output or its call of do_eval.
line_discipline(line) ==
    /\ Alive /\ pc(Caller) = "idle"
    /\ shell # 0 /\ shell = socket
    /\ cyc < MaxSubmits
    /\ cyc' = cyc + 1
    /\ expr' = line
    /\ poll_needed' = FALSE
    /\ LET kind == Classify(line, input_pending) IN
       /\ h' = [h EXCEPT !.kinds[cyc + 1] = kind,
                         !.call = [NewCall EXCEPT
                             !.interrupts =
                                 IF kind \in {"abort", "ctrl"} THEN 1 ELSE 0,
                             !.clears =
                                 IF kind \in {"abort", "ctrl"} THEN 1 ELSE 0,
                             !.overlap = (PollLive # {}),
                             !.pend = input_pending],
                         !.drained = FALSE]
       /\ input_pending' =                      \* clear_pending()
              IF kind \in {"abort", "ctrl"} THEN FALSE ELSE input_pending
       /\ self_destruct' = IF kind = "exit" THEN TRUE ELSE self_destruct
       /\ toPut' = CASE kind = "abort" -> <<abort_prompt>>
                     [] kind = "erase" -> <<get_prompt>>
                     [] kind = "ctrl" -> <<<<NL>>, normal_prompt>>
                     [] kind = "exit" ->
                           IF show_prompt THEN <<empty, exit_text>>
                           ELSE <<empty>>
                     [] OTHER -> <<>>
       /\ input' = CASE kind = "empty" -> <<NL>>
                     [] kind = "eval" -> line \o <<NL>>
                     [] OTHER -> input
       /\ Goto(Caller, IF kind \in {"empty", "eval"} THEN "de_join_eval"
                       ELSE "put")
    /\ UNCHANGED <<shellVars, pending_output, eval_done, evalthr, pollthr,
                   lifeVars, evalw, outbuf, eval_error, sent>>

\* pending_output += s, on the receiver thread.
put_output ==
    /\ Alive /\ pc(Caller) = "put"
    /\ pending_output' = pending_output \o Head(toPut)
    /\ toPut' = Tail(toPut)
    /\ h' = [h EXCEPT !.call.put = Append(@, Head(toPut))]
    /\ Goto(Caller, IF Len(toPut) > 1 THEN "put"
                    ELSE AfterDiscipline(poll_needed))
    /\ UNCHANGED <<shellVars, eval_done, poll_needed, self_destruct, evalthr,
                   pollthr, lifeVars, expr, input, cyc, evalw, evalVars, sent>>

\* -------------------------------------------------------------- do_eval()
\* if (evalthr) { evalthr->join(); delete evalthr; evalthr = nullptr; }
do_eval_join_eval ==
    /\ Alive /\ pc(Caller) = "de_join_eval"
    /\ IF evalthr # 0
       THEN /\ EvalThreadFinished(evalthr)
            /\ evalthr' = 0
            /\ h' = [h EXCEPT !.call.joins = @ + 1]
       ELSE UNCHANGED <<evalthr, h>>
    /\ Goto(Caller, "de_join_poll")
    /\ UNCHANGED <<shellVars, pending_output, eval_done, poll_needed,
                   self_destruct, pollthr, lifeVars, localVars, evalw,
                   evalVars, sent>>

\* if (pollthr) { pollthr->join(); delete pollthr; pollthr = nullptr; }
do_eval_join_poll ==
    /\ Alive /\ pc(Caller) = "de_join_poll"
    /\ IF pollthr # 0
       THEN /\ PollThreadFinished(pollthr)
            /\ pollthr' = 0
            /\ h' = [h EXCEPT !.call.joins = @ + 1]
       ELSE UNCHANGED <<pollthr, h>>
    /\ Goto(Caller, "de_reset")
    /\ UNCHANGED <<shellVars, pending_output, eval_done, poll_needed,
                   self_destruct, evalthr, lifeVars, localVars, evalw,
                   evalVars, sent>>

\* eval_done = false; poll_needed = true;
do_eval_reset ==
    /\ Alive /\ pc(Caller) = "de_reset"
    /\ eval_done' = FALSE
    /\ poll_needed' = TRUE
    /\ h' = [h EXCEPT !.latches = 0, !.prompts = 0, !.prompt = NoPrompt]
    /\ Goto(Caller, "de_begin")
    /\ UNCHANGED <<shellVars, pending_output, self_destruct, evalthr, pollthr,
                   lifeVars, localVars, evalw, evalVars, sent>>

\* evaluator->begin_eval();
do_eval_begin ==
    /\ Alive /\ pc(Caller) = "de_begin"
    /\ h' = [h EXCEPT !.begun = @ \cup {cyc}, !.call.begins = @ + 1]
    /\ Goto(Caller, "de_start")
    /\ UNCHANGED <<shellVars, pending_output, eval_done, poll_needed,
                   self_destruct, evalthr, pollthr, lifeVars, localVars,
                   evalw, evalVars, sent>>

\* evalthr = new std::thread(eval_wrapper, input);
do_eval_start ==
    /\ Alive /\ pc(Caller) = "de_start"
    /\ evalthr' = cyc
    /\ evalw' = [evalw EXCEPT ![cyc] = [st |-> "running", n |-> 0]]
    /\ h' = [h EXCEPT !.call.evalStarts = @ + 1, !.call.evalArg = input]
    /\ Goto(Caller, AfterDiscipline(poll_needed))
    /\ UNCHANGED <<shellVars, pending_output, eval_done, poll_needed,
                   self_destruct, pollthr, lifeVars, localVars, evalVars,
                   sent>>

\* ------------------------------------------------------ eval(), continued
\* if (pollthr) { pollthr->join(); delete pollthr; }
eval_join_poll ==
    /\ Alive /\ pc(Caller) = "ev_join_poll"
    /\ IF pollthr # 0
       THEN /\ PollThreadFinished(pollthr)
            /\ h' = [h EXCEPT !.call.joins = @ + 1]
       ELSE UNCHANGED h
    /\ Goto(Caller, "ev_start_poll")
    /\ UNCHANGED <<shellVars, pending_output, eval_done, poll_needed,
                   self_destruct, evalthr, pollthr, lifeVars, localVars,
                   evalw, evalVars, sent>>

\* pollthr = new std::thread(poll_wrapper);
eval_start_poll ==
    /\ Alive /\ pc(Caller) = "ev_start_poll"
    /\ pollthr' = cyc
    /\ th' = [th EXCEPT ![Caller].pc = AfterRelay(self_destruct),
                        ![cyc] = [pc |-> "po_enter", ret |-> empty]]
    /\ h' = [h EXCEPT !.call.pollStarts = @ + 1]
    /\ UNCHANGED <<shellVars, pending_output, eval_done, poll_needed,
                   self_destruct, evalthr, lifeVars, localVars, evalw,
                   evalVars, sent>>

\* ------------------------------------------------------- self-destruct
\* socket->sendPrompt();
self_destruct_prompt ==
    /\ Alive /\ pc(Caller) = "sd_prompt"
    /\ h' = [h EXCEPT !.events = Append(@, "sendPrompt")]
    /\ Goto(Caller, "sd_detach")
    /\ UNCHANGED <<shellVars, pending_output, eval_done, poll_needed,
                   self_destruct, evalthr, pollthr, lifeVars, localVars,
                   evalw, evalVars, sent>>

\* socket->SetShell(nullptr);
self_destruct_detach ==
    /\ Alive /\ pc(Caller) = "sd_detach"
    /\ shell' = 0
    /\ h' = [h EXCEPT !.events = Append(@, "detach")]
    /\ Goto(Caller, "dt_join_eval")
    /\ UNCHANGED <<shellVars, pending_output, eval_done, poll_needed,
                   self_destruct, evalthr, pollthr, socket, released, fatal,
                   localVars, evalw, evalVars, sent>>

\* delete this: ~GenericShell joins evalthr ...
dtor_join_eval ==
    /\ Alive /\ pc(Caller) = "dt_join_eval"
    /\ IF evalthr # 0
       THEN /\ EvalThreadFinished(evalthr)
            /\ evalthr' = 0
            /\ h' = [h EXCEPT !.call.joins = @ + 1,
                              !.events = Append(@, "join_eval")]
       ELSE UNCHANGED <<evalthr, h>>
    /\ Goto(Caller, "dt_join_poll")
    /\ UNCHANGED <<shellVars, pending_output, eval_done, poll_needed,
                   self_destruct, pollthr, lifeVars, localVars, evalw,
                   evalVars, sent>>

\* ... then pollthr, and the instance is gone.
dtor_join_poll ==
    /\ Alive /\ pc(Caller) = "dt_join_poll"
    /\ IF pollthr # 0
       THEN /\ PollThreadFinished(pollthr)
            /\ pollthr' = 0
            /\ h' = [h EXCEPT !.call.joins = @ + 1,
                              !.events = Append(Append(@, "join_poll"),
                                                "released")]
       ELSE /\ h' = [h EXCEPT !.events = Append(@, "released")]
            /\ UNCHANGED pollthr
    /\ released' = TRUE
    /\ Goto(Caller, "dead")
    /\ UNCHANGED <<shellVars, pending_output, eval_done, poll_needed,
                   self_destruct, evalthr, socket, shell, fatal, localVars,
                   evalw, evalVars, sent>>

\* ---------------------------------------------------------- poll_output()
\* Where a thread goes with the string poll_output returned: the receiver
\* thread sends it whatever it is, poll_wrapper loops while it is not empty.
AfterPoll(t, s) ==
    IF t = Caller THEN "send" ELSE IF 0 < Len(s) THEN "send" ELSE "exit"

Return(t, s) == th' = [th EXCEPT ![t] = [pc |-> AfterPoll(t, s), ret |-> s]]

\* evaluator->poll_result(): the output available now, empty if none.
poll_result == IF outbuf = <<>> THEN empty ELSE Head(outbuf)

\* if (0 < pending_output.size()) { result = pending_output; ... }
\* result = evaluator->poll_result(); if (0 < result.size()) return result;
\* if (eval_done) return "";
poll_output_enter(t) ==
    /\ ~fatal /\ pc(t) = "po_enter"
    /\ IF 0 < Len(pending_output)
       THEN /\ th' = [th EXCEPT ![t] = [pc |-> "po_clear",
                                        ret |-> pending_output]]
            /\ UNCHANGED <<outbuf, h>>
       ELSE /\ outbuf' = IF outbuf = <<>> THEN outbuf ELSE Tail(outbuf)
            /\ h' = [h EXCEPT !.call.pollResults =
                                   IF t = Caller THEN @ + 1 ELSE @,
                               !.drained =
                                   @ \/ (Len(poll_result) = 0 /\ eval_done)]
            /\ IF 0 < Len(poll_result) THEN Return(t, poll_result)
               ELSE IF eval_done THEN Return(t, empty)
               ELSE Goto(t, "po_set")
    /\ UNCHANGED <<shellVars, pending_output, eval_done, poll_needed,
                   self_destruct, evalthr, pollthr, lifeVars, localVars,
                   evalw, input_pending, eval_error, sent>>

\* ... pending_output.clear(); return result;
poll_output_clear(t) ==
    /\ ~fatal /\ pc(t) = "po_clear"
    /\ pending_output' = empty
    /\ Return(t, th[t].ret)
    /\ UNCHANGED <<shellVars, eval_done, poll_needed, self_destruct, evalthr,
                   pollthr, lifeVars, localVars, evalw, evalVars, sent, h>>

\* eval_done = true; and the prompt for the evaluator's state.
poll_output_prompt(t) ==
    /\ ~fatal /\ pc(t) = "po_set"
    /\ eval_done' = TRUE
    /\ LET p == TerminalPrompt(show_output, show_prompt, input_pending,
                               eval_error) IN
       /\ Return(t, p)
       /\ h' = [h EXCEPT !.latches = @ + 1,
                         !.drained = @ \/ (p = empty),
                         !.prompts = IF p # empty THEN @ + 1 ELSE @,
                         !.prompt = [taken |-> TRUE, so |-> show_output,
                                     sp |-> show_prompt,
                                     ip |-> input_pending,
                                     ee |-> eval_error, text |-> p]]
    /\ UNCHANGED <<shellVars, pending_output, poll_needed, self_destruct,
                   evalthr, pollthr, lifeVars, localVars, evalw, evalVars,
                   sent>>

\* ---------------------------------------------------------- socket->Send
CycleOf(t) == IF t = Caller THEN cyc ELSE t

\* socket->Send(retstr): a thread at "send" is inside the call, this step
\* writes the string (an empty one writes nothing) and returns; the
\* receiver goes on in eval(), poll_wrapper polls again.
Send(t) ==
    /\ ~fatal /\ pc(t) = "send"
    /\ sent' = IF 0 < Len(th[t].ret)
               THEN Append(sent, [cyc |-> CycleOf(t), by |-> t,
                                  text |-> th[t].ret])
               ELSE sent
    /\ h' = IF t = Caller
            THEN [h EXCEPT !.call.sends = @ + 1,
                           !.call.callerSent = Append(@, th[t].ret)]
            ELSE h
    /\ th' = [th EXCEPT ![t] = [pc |-> IF t = Caller
                                       THEN AfterRelay(self_destruct)
                                       ELSE "po_enter",
                                ret |-> empty]]
    /\ UNCHANGED <<shellVars, pending_output, eval_done, poll_needed,
                   self_destruct, evalthr, pollthr, lifeVars, localVars,
                   evalw, evalVars>>

\* ------------------------------------------------------ evaluation thread
Chunk(k) == <<111, 48 + k>>

\* eval_expr makes a chunk of output available to poll_result.
eval_expr_output(k) ==
    /\ ~fatal /\ evalw[k].st = "running"
    /\ evalw[k].n < MaxOut
    /\ outbuf' = Append(outbuf, Chunk(k))
    /\ evalw' = [evalw EXCEPT ![k].n = @ + 1]
    /\ UNCHANGED <<shellVars, pending_output, eval_done, poll_needed,
                   self_destruct, evalthr, pollthr, lifeVars, th, localVars,
                   input_pending, eval_error, sent, h>>

\* eval_expr returns, leaving the evaluator's pending and error state.
eval_expr_return(k, pend, err) ==
    /\ ~fatal /\ evalw[k].st = "running"
    /\ evalw' = [evalw EXCEPT ![k].st = "done"]
    /\ input_pending' = pend
    /\ eval_error' = err
    /\ UNCHANGED <<shellVars, pending_output, eval_done, poll_needed,
                   self_destruct, evalthr, pollthr, lifeVars, th, localVars,
                   outbuf, sent, h>>

\* ------------------------------------------------------------------ Next
Next ==
    \/ \E b \in BOOLEAN : hush_output(b)
    \/ \E b \in BOOLEAN : hush_prompt(b)
    \/ \E s \in Sockets : set_socket(s)
    \/ \E line \in Lines : line_discipline(line)
    \/ put_output
    \/ do_eval_join_eval
    \/ do_eval_join_poll
    \/ do_eval_reset
    \/ do_eval_begin
    \/ do_eval_start
    \/ eval_join_poll
    \/ eval_start_poll
    \/ self_destruct_prompt
    \/ self_destruct_detach
    \/ dtor_join_eval
    \/ dtor_join_poll
    \/ \E t \in Threads : poll_output_enter(t)
    \/ \E t \in Threads : poll_output_clear(t)
    \/ \E t \in Threads : poll_output_prompt(t)
    \/ \E t \in Threads : Send(t)
    \/ \E k \in Workers : eval_expr_output(k)
    \/ \E k \in Workers, pend \in BOOLEAN, err \in BOOLEAN :
           eval_expr_return(k, pend, err)

Spec == Init /\ [][Next]_vars

\* ------------------------------------------------- one line after another
\* The lines of the second specification: every shape line_discipline tells
\* apart, at and around the limits of its scan.
LineCases ==
    { <<>>, <<CH>>, <<DOT>>, <<CH, DOT>>, <<EOT>>, <<CH, EOT>>,
      <<ESC>>, <<CAN>>, <<SYN>>, <<CH, ESC>>, <<DOT, CAN>>, <<EOT, SYN>>,
      <<IAC>>, <<CH, IAC>>, <<IAC, WILL>>, <<IAC, IAC>>,
      <<IAC, IP>>, <<IAC, AO>>, <<IAC, EL>>, <<IAC, IAC, EL>>,
      <<IAC, IP, IAC, EL>>, <<IAC, EL, IAC, AO>>,
      <<IAC, IP, IAC, WILL>>, <<IAC, EL, IAC>>,
      <<IAC, IP, ESC>>, <<IAC, EL, EOT>>, <<IAC, AO, DOT>>,
      <<IAC, WILL, ESC>>, <<IAC, WILL, EOT>>,
      <<IAC, IP>> \o Pad(Window - 2),
      <<IAC, EL>> \o Pad(Window - 2),
      <<IAC, IP>> \o Pad(Window - 1),
      <<IAC, EL>> \o Pad(Window - 1),
      <<IAC, IP>> \o Pad(Window - 2) \o <<ESC>>,
      <<IAC, EL>> \o Pad(Window - 2) \o <<EOT>>,
      <<IAC, EL>> \o Pad(Window - 3) \o <<IAC, IP>> }

\* The first call of eval() evaluates one ordinary line, which leaves the
\* evaluator with or without pending input; the second call comes when the
\* threads of the first have finished and brings any of LineCases.
LineInput ==
    IF cyc = 0 THEN {<<CH>>}
    ELSE IF cyc = 1 /\ evalw[1].st = "done" /\ pc(1) = "exit" THEN LineCases
    ELSE {}

NextLine ==
    \/ \E s \in Sockets : set_socket(s)
    \/ \E line \in LineInput : line_discipline(line)
    \/ put_output
    \/ do_eval_join_eval
    \/ do_eval_join_poll
    \/ do_eval_reset
    \/ do_eval_begin
    \/ do_eval_start
    \/ eval_join_poll
    \/ eval_start_poll
    \/ self_destruct_prompt
    \/ self_destruct_detach
    \/ dtor_join_eval
    \/ dtor_join_poll
    \/ \E t \in Threads : poll_output_enter(t)
    \/ \E t \in Threads : poll_output_clear(t)
    \/ \E t \in Threads : poll_output_prompt(t)
    \/ \E t \in Threads : Send(t)
    \/ \E k \in Workers : eval_expr_output(k)
    \/ \E k \in Workers, pend \in BOOLEAN, err \in BOOLEAN :
           eval_expr_return(k, pend, err)

LineSpec == Init /\ [][NextLine]_vars

\* ================================================================ claims
EvalKinds == {"empty", "eval"}
ControlKinds == {"abort", "erase", "ctrl", "exit"}

\* The receiver thread waits in a join for a thread that has not finished.
CallerBlocked ==
    \/ /\ pc(Caller) \in {"de_join_eval", "dt_join_eval"}
       /\ evalthr # 0 /\ evalw[evalthr].st = "running"
    \/ /\ pc(Caller) \in {"de_join_poll", "ev_join_poll", "dt_join_poll"}
       /\ pollthr # 0 /\ pollthr \in PollLive

\* The receiver thread is back from the cyc-th call of eval().
Returned == cyc >= 1 /\ pc(Caller) \in {"idle", "dead"}

C3_OneWorkerOfEachKind ==
    /\ Cardinality(EvalLive) <= 1
    /\ Cardinality(PollLive) <= 1

C3_Witness ==
    /\ cyc = 2 /\ h.kinds[1] \in EvalKinds
    /\ EvalLive = {2} /\ PollLive = {2}

\* C4: in do_eval the previous evaluation thread is joined, then the previous
\* polling thread, then eval_done is reset and poll_needed set, then
\* begin_eval is called, then the new evaluation thread is started; begin_eval
\* and eval_expr of a cycle never run while a thread of an earlier cycle is
\* live.
C4_DoEvalOrder ==
    /\ pc(Caller) \in {"de_join_poll", "de_reset", "de_begin", "de_start"}
          => evalthr = 0 /\ EvalLive = {}
    /\ pc(Caller) \in {"de_reset", "de_begin", "de_start"}
          => pollthr = 0 /\ PollLive = {}
    /\ pc(Caller) \in {"de_join_eval", "de_join_poll", "de_reset"}
          => ~poll_needed /\ cyc \notin h.begun
    /\ pc(Caller) \in {"de_begin", "de_start"}
          => ~eval_done /\ poll_needed /\ evalw[cyc].st = "none"
    /\ pc(Caller) = "de_begin" => cyc \notin h.begun
    /\ pc(Caller) = "de_start" => cyc \in h.begun
    /\ \A k \in Workers :
          evalw[k].st # "none" =>
              /\ k \in h.begun
              /\ evalw[k].st = "running" =>
                    \A j \in Workers :
                        j < k => j \notin EvalLive /\ j \notin PollLive

C4_Witness ==
    /\ cyc = 2 /\ pc(Caller) = "de_start"
    /\ evalw[1].st = "done" /\ pc(1) = "exit"

\* C5: the receiver thread never executes put_output while a polling thread
\* of an earlier Evaluate cycle is inside poll_output (it has copied
\* pending_output and not yet cleared it, or is past the eval_done test).
C5_NoPutDuringPoll ==
    ~(/\ pc(Caller) = "put"
      /\ \E k \in Workers : pc(k) \in {"po_clear", "po_set"})

\* C6: the receiver thread and a polling thread are never both inside
\* socket->Send, and no two polling threads are.
C6_OneThreadInSend ==
    Cardinality({t \in Threads : pc(t) = "send"}) <= 1

\* C7 as stated: a control line (interrupt, erase-line, control byte, exit)
\* submitted while an evaluation thread is inside eval_expr always returns:
\* the receiver thread joins no thread, starts no thread, never waits and
\* does not call poll_result, and an interrupt line has called interrupt().
C7_ControlPathTouchesNothing ==
    (cyc >= 1 /\ h.kinds[cyc] \in ControlKinds /\ EvalLive # {})
    =>
    /\ h.call.joins = 0 /\ ~CallerBlocked
    /\ h.call.evalStarts = 0 /\ h.call.pollStarts = 0
    /\ h.call.pollResults = 0
    /\ h.kinds[cyc] = "abort" => h.call.interrupts = 1

\* C7 amended: an interrupt, erase-line or control-byte line submitted while
\* an evaluation thread is inside eval_expr always returns: the receiver
\* thread joins no thread, starts no thread and never waits; it calls
\* poll_output once, which calls poll_result at most once, after it has
\* found pending_output empty; interrupt() has been called when the call of
\* an interrupt or control-byte line returns.  An exit line joins both threads
\* in the destructor and returns only after eval_expr has returned.
C7_ControlPathNeverWaits ==
    /\ (cyc >= 1 /\ h.kinds[cyc] \in {"abort", "erase", "ctrl"}
           /\ EvalLive # {})
       =>
       /\ h.call.joins = 0 /\ ~CallerBlocked
       /\ h.call.evalStarts = 0 /\ h.call.pollStarts = 0
       /\ h.call.pollResults <= 1
       /\ h.call.pollResults = 1 =>
             pc(Caller) \notin {"put", "po_enter", "po_clear"}
       /\ h.kinds[cyc] \in {"abort", "ctrl"} => h.call.interrupts = 1
       /\ h.kinds[cyc] = "erase" => h.call.interrupts = 0
    /\ (cyc >= 1 /\ h.kinds[cyc] = "exit" /\ pc(Caller) = "dead")
       => EvalLive = {} /\ PollLive = {}

C7_Witness ==
    /\ cyc = 2 /\ h.kinds[1] \in EvalKinds /\ h.kinds[2] = "abort"
    /\ EvalLive = {1} /\ pc(Caller) = "idle"
    /\ h.call.callerSent = <<abort_prompt>>

\* The flags poll_output saw when it last chose a terminal prompt.
PromptCase(so, sp, ip, ee) ==
    /\ h.prompt.taken
    /\ h.prompt.so = so /\ h.prompt.sp = sp
    /\ h.prompt.ip = ip /\ h.prompt.ee = ee

\* C8 as stated: the terminal prompt is the pending prompt if inputPending
\* and showPrompt (whatever showOutput); nothing if inputPending and not
\* showPrompt; otherwise the normal prompt if (showOutput or evalError) and
\* showPrompt; otherwise nothing.
C8_PromptTableAsStated ==
    \A so, sp, ip, ee \in BOOLEAN :
        PromptCase(so, sp, ip, ee) =>
            h.prompt.text =
                CASE ip /\ sp -> pending_prompt
                  [] ip /\ ~sp -> empty
                  [] ~ip /\ (so \/ ee) /\ sp -> normal_prompt
                  [] OTHER -> empty

\* C8 amended: the terminal prompt is the pending prompt if inputPending and
\* showOutput and showPrompt; nothing if inputPending and either of them is
\* off; otherwise the normal prompt if (showOutput or evalError) and
\* showPrompt; otherwise nothing.
C8_PromptTable ==
    \A so, sp, ip, ee \in BOOLEAN :
        PromptCase(so, sp, ip, ee) =>
            h.prompt.text =
                CASE ip /\ so /\ sp -> pending_prompt
                  [] ip /\ ~(so /\ sp) -> empty
                  [] ~ip /\ (so \/ ee) /\ sp -> normal_prompt
                  [] OTHER -> empty

C8_Witness ==
    /\ PromptCase(FALSE, TRUE, TRUE, FALSE)
    /\ h.prompt.text = empty
    /\ \E t \in Threads : pc(t) \in {"send", "exit"} /\ h.latches = 1

\* C9: between two resets of eval_done by do_eval at most one terminal
\* prompt is produced by poll_output, whichever threads call it.
C9_OnePromptPerCycle ==
    h.begun # {} => h.prompts <= 1

\* The line holds IAC followed by IP or AO, IAC among its last 20 chars.
HoldsAbortEscape(e) ==
    \E i \in 1..(Len(e) - 1) :
        /\ e[i] = IAC /\ e[i + 1] \in {IP, AO}
        /\ i > Len(e) - Window

\* The recognised escape nearest to the end of the line, IAC among the last
\* 20 chars, is IAC IP or IAC AO.
NearestEscapeIsAbort(e) ==
    \E i \in 1..(Len(e) - 1) :
        /\ e[i] = IAC /\ e[i + 1] \in {IP, AO}
        /\ i > Len(e) - Window
        /\ \A j \in (i + 1)..(Len(e) - 1) :
              ~(e[j] = IAC /\ e[j + 1] \in {IP, AO, EL})

EndsInErase(e) ==
    Len(e) >= 2 /\ e[Len(e) - 1] = IAC /\ e[Len(e)] = EL

\* The prompt for the state the evaluator was in when the line arrived.
PromptAtEntry ==
    IF ~show_prompt THEN empty
    ELSE IF h.call.pend THEN pending_prompt ELSE normal_prompt

\* C11: a line that ends in IAC EL never calls begin_eval, eval_expr,
\* interrupt() or clear_pending(), and the only text eval() hands to
\* socket->Send for it is the prompt for the current input_pending state
\* (empty when prompts are hushed): no evaluator output and no other text.
C11_EraseRelaysOnlyPrompt ==
    (cyc >= 1 /\ EndsInErase(expr)) =>
        /\ h.call.begins = 0 /\ h.call.evalStarts = 0
        /\ evalw[cyc].st = "none"
        /\ h.call.interrupts = 0 /\ h.call.clears = 0
        /\ h.call.sends <= 1
        /\ pc(Caller) = "send" => th[Caller].ret = PromptAtEntry

\* IAC followed by IP, AO or EL, IAC among the last 20 chars of the line.
HoldsEscape(e) ==
    \E i \in 1..(Len(e) - 1) :
        /\ e[i] = IAC /\ e[i + 1] \in {IP, AO, EL}
        /\ i > Len(e) - Window

\* The last char is ESC, CAN or SYN and the window holds no escape.
EndsInControlByte(e) ==
    Len(e) >= 1 /\ e[Len(e)] \in {ESC, CAN, SYN} /\ ~HoldsEscape(e)

\* C12: a line whose last char is ESC, CAN or SYN, with no recognised escape
\* in its last 20 chars, never calls begin_eval or eval_expr, calls
\* interrupt() and clear_pending() once each, and the text eval() sends for
\* it is a newline followed by normal_prompt, whatever show_prompt and
\* input_pending are.
C12_ControlByteRelaysNewlinePrompt ==
    (cyc >= 1 /\ EndsInControlByte(expr)) =>
        /\ h.call.begins = 0 /\ h.call.evalStarts = 0
        /\ evalw[cyc].st = "none"
        /\ h.call.interrupts = 1 /\ h.call.clears = 1
        /\ Returned => h.call.callerSent = << <<NL>> \o normal_prompt >>

\* The last char is one of the control chars the line discipline looks for.
EndsInByte(e, bytes) == Len(e) >= 1 /\ e[Len(e)] \in bytes

\* The call has begun exactly one evaluation, of the line and a newline.
EvaluatedOnce ==
    /\ h.call.begins = 1 /\ h.call.evalStarts = 1
    /\ h.call.evalArg = expr \o <<NL>>
    /\ evalthr = cyc /\ evalw[cyc].st # "none"

\* C13 as stated: every line that holds no recognised escape in its last 20
\* chars and does not end in a control char (ESC, CAN, SYN, EOT), the
\* zero-length line included, is evaluated: when eval() returns, begin_eval
\* has been called once and eval_expr once, with the line and a newline.
C13_EveryOtherLineEvaluated ==
    (Returned /\ ~HoldsEscape(expr)
        /\ ~EndsInByte(expr, {ESC, CAN, SYN, EOT}))
    => EvaluatedOnce

\* C13 amended: every such line other than the single char '.' submitted
\* while no input is pending is evaluated: begin_eval and eval_expr are
\* never called more than once in the call, and when eval() returns each
\* has been called once, eval_expr with the line and a newline ("\n" for
\* the zero-length line).
C13_EveryOtherLineButDotEvaluated ==
    (cyc >= 1 /\ ~HoldsEscape(expr)
        /\ ~EndsInByte(expr, {ESC, CAN, SYN, EOT})
        /\ ~(expr = <<DOT>> /\ ~h.call.pend))
    =>
    /\ h.call.begins <= 1 /\ h.call.evalStarts <= 1
    /\ h.call.interrupts = 0 /\ h.call.clears = 0 /\ ~self_destruct
    /\ Returned => EvaluatedOnce

C13_Witness ==
    /\ Returned /\ cyc = 2 /\ expr = <<DOT>> /\ h.call.pend
    /\ h.call.evalArg = <<DOT, NL>> /\ evalw[2].st = "done"

\* The current call was handed the single char '.' with no input pending.
DotExit == cyc >= 1 /\ expr = <<DOT>> /\ ~h.call.pend

\* How often x occurs in the sequence q.
Count(q, x) == Cardinality({i \in DOMAIN q : q[i] = x})

\* C14: the single char '.' with no input pending makes exactly one exit:
\* self_destruct is set, begin_eval and eval_expr are not called and no
\* thread is started, the shell is detached from its socket
\* (SetShell(nullptr)) once, before eval() is over, and from then on no
\* call of eval() is made on the shell.
C14_DotExitsOnce ==
    /\ [](DotExit =>
            /\ self_destruct
            /\ h.call.begins = 0 /\ h.call.evalStarts = 0
            /\ h.call.pollStarts = 0
            /\ evalw[cyc].st = "none" /\ pc(cyc) = "none"
            /\ pc(Caller) # "idle"
            /\ Count(h.events, "detach") <= 1
            /\ pc(Caller) \in {"dt_join_eval", "dt_join_poll", "dead"}
                   => shell = 0 /\ Count(h.events, "detach") = 1)
    /\ [][DotExit => cyc' = cyc]_vars

C14_Witness ==
    /\ DotExit /\ cyc = 1 /\ cyc < MaxSubmits
    /\ pc(Caller) = "dead" /\ shell = 0 /\ released

\* The steps of the exit path, in the order the claim gives them.
ExitSteps == <<"sendPrompt", "detach", "join_eval", "join_poll", "released">>

\* q lists some of the steps of ExitSteps, each at most once, in that order.
InExitOrder(q) ==
    \A i, j \in DOMAIN q :
        i < j => \E a, b \in DOMAIN ExitSteps :
                     a < b /\ q[i] = ExitSteps[a] /\ q[j] = ExitSteps[b]

\* C15: on the exit path the farewell text has been sent by the receiver
\* thread's own poll_output and Send before sendPrompt is called; then come,
\* each once and in this order, sendPrompt, SetShell(nullptr), the join of
\* the evaluation thread, the join of the polling thread and the release of
\* the shell; the shell is released only when every thread it refers to has
\* been joined, and no thread runs on it once it is released.
C15_ExitOrder ==
    /\ InExitOrder(h.events)
    /\ (pc(Caller) \in {"sd_prompt", "sd_detach", "dt_join_eval",
                        "dt_join_poll", "dead"} /\ show_prompt)
          => h.call.callerSent = <<exit_text>>
    /\ pc(Caller) = "sd_detach" => h.events = <<"sendPrompt">>
    /\ pc(Caller) = "dt_join_eval" => h.events = <<"sendPrompt", "detach">>
    /\ released =>
          /\ pc(Caller) = "dead" /\ shell = 0
          /\ evalthr = 0 /\ pollthr = 0
          /\ EvalLive = {} /\ PollLive = {}
          /\ \A k \in Workers : pc(k) \in {"none", "exit"}

\* This step is a return of poll_output, by any thread, with a text that is
\* not empty.
ReturnsText ==
    \E t \in Threads :
        /\ pc(t) \in {"po_enter", "po_clear", "po_set"}
        /\ th'[t].pc \in {"send", "exit"}
        /\ th'[t].ret # empty

\* C16: once poll_output has returned the empty string after the last call
\* of eval() began, no call of poll_output returns a text that is not empty
\* until the next call of eval() begins, whatever the evaluator does.
C16_DrainStaysEmpty == [][h.drained => ~ReturnsText]_vars

Prompts == {normal_prompt, pending_prompt}

\* C20: the polling thread of an Evaluate cycle writes the terminal prompt,
\* and exits, only after eval_expr of that cycle has returned and every
\* chunk it produced has been fetched: no prompt of the cycle is on the
\* transport, and its polling thread is not over, while eval_expr is still
\* running or holds output, so every chunk of the cycle precedes its prompt.
C20_PromptAfterEvaluation ==
    \A k \in Workers :
        LET finished ==
                /\ evalw[k].st = "done"
                /\ \A i \in DOMAIN outbuf : outbuf[i] # Chunk(k)
        IN  /\ pc(k) = "exit" => finished
            /\ \A i \in DOMAIN sent :
                  (sent[i].by = k /\ sent[i].text \in Prompts) => finished
            /\ \A i, j \in DOMAIN sent :
                  (i < j /\ sent[i].by = k /\ sent[i].text \in Prompts)
                      => sent[j].text # Chunk(k)

\* C17: a call of set_socket on a shell that already has a socket fails the
\* assertion: the shell keeps the socket it had, the first socket's pointer
\* to the shell is as it was, and SetShell is not called on the second
\* socket.
C17_SecondBindRejected ==
    /\ socket \in {0, 1} /\ shell \in {0, 1}
    /\ h.binds = 0 => socket = 0 /\ shell = 0 /\ ~fatal
    /\ h.binds = 1 => socket = 1 /\ ~fatal
    /\ h.binds >= 2 => h.binds = 2 /\ fatal /\ socket = 1 /\ shell = 1

C17_Witness ==
    /\ h.binds = 2 /\ fatal /\ socket = 1 /\ shell = 1
    /\ cyc >= 1 /\ PollLive # {}

\* C18: line_discipline exits only when no input is pending and the line is
\* exactly EOT or exactly '.'; a longer line that ends in EOT (and holds no
\* escape) is evaluated, and so are EOT and '.' while input is pending.
C18_ExitOnlyOnLoneEotOrDot ==
    /\ self_destruct => ~h.call.pend /\ expr \in {<<EOT>>, <<DOT>>}
    /\ (Returned /\ ~HoldsEscape(expr) /\ EndsInByte(expr, {EOT})
           /\ Len(expr) > 1)
       => EvaluatedOnce
    /\ (Returned /\ expr \in {<<EOT>>, <<DOT>>} /\ h.call.pend)
       => EvaluatedOnce

\* The places of the recognised escapes in the last 20 chars of the line.
EscapePlaces(e) ==
    {i \in 1..(Len(e) - 1) :
        e[i] = IAC /\ e[i + 1] \in {IP, AO, EL} /\ i > Len(e) - Window}

\* The marker of the recognised escape nearest to the end of the line.
NearestMarker(e) ==
    LET i == CHOOSE p \in EscapePlaces(e) :
                 \A q \in EscapePlaces(e) : q <= p
    IN  e[i + 1]

\* What the call has done: one of the four ways line_discipline may go.
InterruptedWith(texts) ==
    /\ h.call.interrupts = 1 /\ h.call.clears = 1
    /\ h.call.put = texts
    /\ h.call.begins = 0 /\ h.call.evalStarts = 0 /\ ~self_destruct

IgnoredWithPrompt ==
    /\ h.call.interrupts = 0 /\ h.call.clears = 0
    /\ \/ h.call.put = <<empty>>                   \* prompts were hushed
       \/ h.call.put = <<IF h.call.pend THEN pending_prompt
                         ELSE normal_prompt>>
    /\ h.call.begins = 0 /\ h.call.evalStarts = 0 /\ ~self_destruct

ExitOrEvaluate ==
    /\ h.call.interrupts = 0 /\ h.call.clears = 0
    /\ (self_destruct /\ h.call.begins = 0 /\ h.call.evalStarts = 0)
          \/ (~self_destruct /\ EvaluatedOnce /\ h.call.put = <<>>)

\* C19: a recognised escape (IAC followed by IP, AO or EL) with IAC among
\* the last 20 chars decides what the call does, whatever the last char is;
\* of several such escapes the one nearest to the end decides; IAC followed
\* by another char is passed over and an escape further than 20 chars from
\* the end is not seen.  Without such an escape a last char of ESC, CAN or
\* SYN decides, before the line is looked at as an exit line.
C19_NearestEscapeThenLastByte ==
    (Returned /\ cyc >= 1) =>
        IF EscapePlaces(expr) # {}
        THEN IF NearestMarker(expr) = EL
             THEN IgnoredWithPrompt
             ELSE InterruptedWith(<<abort_prompt>>)
        ELSE IF EndsInByte(expr, {ESC, CAN, SYN})
             THEN InterruptedWith(<< <<NL>>, normal_prompt >>)
        ELSE ExitOrEvaluate

C19_Witness ==
    /\ Returned /\ cyc = 2
    /\ expr = <<IAC, EL>> \o Pad(Window - 3) \o <<IAC, IP>>
    /\ h.call.put = <<abort_prompt>>

====
